---------------------------- MODULE Spec2Model ----------------------------
(***************************************************************************)
(* Superkernel: the metric kernel (core/kernel/superkernel.py and its      *)
(* zero-dependency twin superkernel_zdl.py) and the TACE oracle control     *)
(* loop (core/oracle/tace_oracle.py).                                       *)
(*                                                                          *)
(* Numbers.  The program computes in binary floating point.  Here every     *)
(* real quantity is a fixed-point integer counted in units of 1/ONE         *)
(* (1e-4), small enough for TLC's 32-bit integers; quotients round down.    *)
(* Timestamps are whole seconds.                                            *)
(***************************************************************************)
EXTENDS Integers, Sequences, FiniteSets, TLC

\* ------------------------------------------------------------------------
\* Bounds of the model
\* ------------------------------------------------------------------------

\* Capacity of the sample history.  The program keeps 10_000 samples
\* (superkernel.py:106); the model keeps the same code with a small window.
MaxSamples == 3
\* Number of most recent losses the main kernel hands to dynamic_cvar.  The
\* program uses 1000 (superkernel.py:84), a tenth of the sample capacity.
MaxCvarWindow == 2
\* ingest() calls in one behaviour: one more than the sample history holds.
MaxIngest == MaxSamples + 1
\* Self-tuning steps in one behaviour (eight saturate nu, six lam).
MaxEvolve == 9
\* Capacity of the oracle's snapshot history.  The program keeps 1000
\* snapshots (tace_oracle.py:35); the model keeps the same code with a small
\* window.
MaxSnapshots == 2
\* Control-loop cycles begun in one behaviour of SpecLoop: one more than
\* the snapshot history holds.
MaxCycles == MaxSnapshots + 1
\* Control-loop cycles begun in one behaviour of Spec, over all workers.
MaxRaceCycles == 2
\* Thread objects start() creates in one behaviour.
MaxThreads == 2
\* Threads of the embedding program that call start() and stop().
NumCallers == 2
\* Samples other parties ingest into the oracle's kernel in one behaviour
\* of SpecLoop.
MaxFeed == 2
\* The same for Spec, whose kernel is seeded with one sample.
MaxRaceFeed == 1

\* ------------------------------------------------------------------------
\* Fixed-point arithmetic
\* ------------------------------------------------------------------------

\* 1.0
ONE == 100 * 100

\* n/d as a fixed-point number.
Fx(n, d) == (n * ONE) \div d

\* The element of a singleton.  TLC evaluates an operator's argument again at
\* every use; a value that is used more than once is bound by a quantifier
\* over its singleton, as in The({x * x : x \in {e}}).
The(S) == CHOOSE x \in S : TRUE

Min(a, b) == The({IF x <= y THEN x ELSE y : x \in {a}, y \in {b}})

Max(a, b) == The({IF x >= y THEN x ELSE y : x \in {a}, y \in {b}})

FxMul(a, b) == (a * b) \div ONE

FxDiv(a, b) == (a * ONE) \div b

\* The integer square root of n by Newton's iteration from x >= sqrt(n).
RECURSIVE SqrtNewton(_, _)
SqrtNewton(n, x) ==
    The({IF y >= x THEN x ELSE SqrtNewton(n, y) : y \in {(x + n \div x) \div 2}})

\* math.sqrt of a fixed-point number (46340 is the largest 32-bit root).
FxSqrt(v) == The({IF n = 0 THEN 0 ELSE SqrtNewton(n, 46340) : n \in {v * ONE}})

\* e^-1
EInv == Fx(3679, 10000)

RECURSIVE EInvPow(_)
EInvPow(k) == IF k = 0 THEN ONE ELSE FxMul(EInvPow(k - 1), EInv)

\* e^-f for 0 <= f < 1, by its Taylor series.
RECURSIVE ExpNegTerms(_, _, _)
ExpNegTerms(f, term, i) ==
    IF i > 7 THEN 0
    ELSE The({(IF i % 2 = 1 THEN 0 - t ELSE t) + ExpNegTerms(f, t, i + 1) :
              t \in {FxMul(term, f) \div i}})

ExpNegFrac(f) == ONE + ExpNegTerms(f, ONE, 1)

\* math.exp(-x) for x >= 0; below the resolution from x = 11 on.
FxExpNeg(x) ==
    The({IF v \div ONE > 10 THEN 0
         ELSE FxMul(EInvPow(v \div ONE), ExpNegFrac(v % ONE)) : v \in {x}})

\* ------------------------------------------------------------------------
\* Sequences
\* ------------------------------------------------------------------------

RECURSIVE SumTo(_, _)
SumTo(s, n) == IF n = 0 THEN 0 ELSE SumTo(s, n - 1) + s[n]

SumSeq(s) == The({SumTo(v, Len(v)) : v \in {s}})

RECURSIVE MaxTo(_, _)
MaxTo(s, n) == IF n = 1 THEN s[1] ELSE Max(MaxTo(s, n - 1), s[n])

MaxSeq(s) == The({MaxTo(v, Len(v)) : v \in {s}})

\* Python's s[-n:] for n > 0.
LastN(s, n) ==
    The({IF Len(v) <= n THEN v ELSE SubSeq(v, Len(v) - n + 1, Len(v)) : v \in {s}})

\* Python's s[cut:] for cut >= 0.
From(s, cut) == The({SubSeq(v, cut + 1, Len(v)) : v \in {s}})

\* ------------------------------------------------------------------------
\* Superkernel: helpers (superkernel.py:12-43)
\* ------------------------------------------------------------------------

_mean(values) ==
    The({IF Len(v) = 0 THEN 0 ELSE SumSeq(v) \div Len(v) : v \in {values}})

\* zip(a, b) stops at the shorter argument.
ZipLen(a, b) == Min(Len(a), Len(b))

_euclidean_distance(a, b) ==
    FxSqrt(SumSeq([i \in 1..ZipLen(a, b) |-> FxMul(a[i] - b[i], a[i] - b[i])]))

Norm(a) == FxSqrt(SumSeq([i \in 1..Len(a) |-> FxMul(a[i], a[i])]))

_cosine_similarity(a, b) ==
    The({IF norm_a = 0 \/ norm_b = 0 THEN 0
         ELSE FxDiv(SumSeq([i \in 1..ZipLen(a, b) |-> FxMul(a[i], b[i])]),
                    FxMul(norm_a, norm_b)) :
         norm_a \in {Norm(a)}, norm_b \in {Norm(b)}})

\* totals has len(vectors[0]) slots; totals[idx] += value raises IndexError
\* for a vector longer than the first one.
CentroidRaises(vs) ==
    /\ Len(vs) > 0
    /\ \E i \in 1..Len(vs) : Len(vs[i]) > Len(vs[1])

_centroid(vs) ==
    IF Len(vs) = 0 THEN << >>
    ELSE [idx \in 1..Len(vs[1]) |->
            SumSeq([i \in 1..Len(vs) |->
                      IF idx <= Len(vs[i]) THEN vs[i][idx] ELSE 0])
            \div Len(vs)]


\* ------------------------------------------------------------------------
\* Superkernel: metrics (superkernel.py:58-101)
\* ------------------------------------------------------------------------

\* alpha = 0.95, in hundredths.
ALPHA_PCT == 95

\* normalized_weights: exp(lam * loss) / total_weight.  Numerator and
\* denominator are both divided by exp(lam * max(losses)), which leaves the
\* quotient as it is and keeps every exponential within (0, 1].
NormalizedWeights(ls, lam_) ==
    The({The({[i \in 1..Len(ls) |-> FxDiv(weights[i], total_weight)] :
              total_weight \in {SumSeq(weights)}}) :
         weights \in {The({[i \in 1..Len(ls) |-> FxExpNeg(FxMul(lam_, mx - ls[i]))] :
                           mx \in {MaxSeq(ls)}})}})

\* int((1 - alpha) * n)
CvarCut(n) == ((100 - ALPHA_PCT) * n) \div 100

WeightedLosses(ls, lam_) ==
    The({SortSeq([i \in 1..Len(ls) |-> FxMul(ls[i], normalized_weights[i])],
                 LAMBDA a, b : a < b) :
         normalized_weights \in {NormalizedWeights(ls, lam_)}})

dynamic_cvar(losses_, lam_) ==
    The({IF Len(ls) = 0 THEN 0
         ELSE The({_mean(From(weighted_losses, CvarCut(Len(weighted_losses)))) :
                   weighted_losses \in {WeightedLosses(ls, lam_)}}) :
         ls \in {losses_}})

\* _psi without its first two lines: the mean over no similarities is 0.0.
_psi_without_fallback(vs) ==
    The({_mean([i \in 1..Len(vs) |-> _cosine_similarity(vs[i], center)]) :
         center \in {_centroid(vs)}})

_psi(vs) ==
    IF Len(vs) < 2 THEN ONE
    ELSE The({_mean([i \in 1..Len(vs) |-> _cosine_similarity(vs[i], center)]) :
              center \in {_centroid(vs)}})

\* 1.0 / (dist + 1e-9), clamped to 1.0: the 1e-9 is below the resolution
\* and only decides the case dist = 0.
_theta(vs) ==
    IF Len(vs) = 0 THEN ONE
    ELSE The({IF dist = 0 THEN ONE ELSE Min(ONE, FxDiv(ONE, dist)) :
              dist \in {The({_mean([i \in 1..Len(vs) |->
                                      _euclidean_distance(vs[i], center)]) :
                              center \in {_centroid(vs)}})}})

\* self.dynamic_cvar(self.losses[-1000:]) if self.losses else 0.0
KernelCvar(ls, lam_) ==
    IF Len(ls) = 0 THEN 0 ELSE dynamic_cvar(LastN(ls, MaxCvarWindow), lam_)

omega_score(vs, ls, lam_) ==
    LET psi   == _psi(vs)
        theta == _theta(vs)
        cvar  == KernelCvar(ls, lam_)
        pole  == ONE
    IN  (4 * psi + 3 * theta + 2 * (ONE - cvar) + 1 * pole) \div 10

\* 1.0 / (omega**2 + 1e-9): the 1e-9 only decides the case omega**2 = 0,
\* where the quotient is far above every other term.
InvSquare(omega) ==
    The({IF sq = 0 THEN ONE * ONE * 10 ELSE FxDiv(ONE, sq) :
         sq \in {The({FxMul(o, o) : o \in {omega}})}})

hamiltonian(vs, ls, nu_, lam_) ==
    LET omega == omega_score(vs, ls, lam_)
        cvar  == KernelCvar(ls, lam_)
    IN  InvSquare(omega) - FxMul(nu_, cvar)

\* Every metric of the main kernel reads the centroid once two vectors are
\* stored, and raises with it.
MetricsRaise(vs) == CentroidRaises(vs)

assess_system_health(vs, ls, nu_, lam_, count) ==
    [omega              |-> omega_score(vs, ls, lam_),
     hamiltonian        |-> hamiltonian(vs, ls, nu_, lam_),
     psi                |-> _psi(vs),
     theta              |-> _theta(vs),
     cvar               |-> KernelCvar(ls, lam_),
     intervention_count |-> count]

\* ------------------------------------------------------------------------
\* SuperkernelZDL: metrics (superkernel_zdl.py:31-87)
\* ------------------------------------------------------------------------

\* zip(*self.vectors) stops at the shortest vector.
ZdlCentroid(vs) ==
    IF Len(vs) = 0 THEN << >>
    ELSE LET width == CHOOSE w \in {Len(vs[i]) : i \in 1..Len(vs)} :
                          \A i \in 1..Len(vs) : w <= Len(vs[i])
         IN  [idx \in 1..width |->
                 SumSeq([i \in 1..Len(vs) |-> vs[i][idx]]) \div Len(vs)]

\* dot / (na * nb + 1e-9): the 1e-9 is below the resolution.
ZdlCosine(a, b) == _cosine_similarity(a, b)

ZdlPsi(vs) ==
    IF Len(vs) < 2 THEN ONE
    ELSE The({_mean([i \in 1..Len(vs) |-> ZdlCosine(vs[i], centroid)]) :
              centroid \in {ZdlCentroid(vs)}})

ZdlTheta(vs) ==
    IF Len(vs) = 0 THEN ONE
    ELSE The({IF mean_dist = 0 THEN ONE ELSE Min(ONE, FxDiv(ONE, mean_dist)) :
              mean_dist \in {The({_mean([i \in 1..Len(vs) |->
                                          _euclidean_distance(vs[i], centroid)]) :
                                  centroid \in {ZdlCentroid(vs)}})}})

\* int(len(sorted_losses) * alpha)
ZdlCut(n) == (n * ALPHA_PCT) \div 100

ZdlCvar(ls) ==
    IF Len(ls) = 0 THEN 0
    ELSE The({IF Len(tail) = 0 THEN 0 ELSE SumSeq(tail) \div Len(tail) :
              tail \in {The({From(sorted_losses, ZdlCut(Len(sorted_losses))) :
                             sorted_losses \in {SortSeq(ls, LAMBDA a, b : a < b)}})}})

ZdlOmega(vs, ls) ==
    (4 * ZdlPsi(vs) + 3 * ZdlTheta(vs) + 2 * (ONE - ZdlCvar(ls)) + 1 * ONE) \div 10

ZdlHamiltonian(vs, ls, nu_) ==
    InvSquare(ZdlOmega(vs, ls)) - FxMul(nu_, ZdlCvar(ls))


\* ------------------------------------------------------------------------
\* Kernel state and operations (superkernel.py:46-56, 103-115;
\* superkernel_zdl.py:21-26, 92-107)
\* ------------------------------------------------------------------------

VARIABLES
    variant,             \* "main": Superkernel, "zdl": SuperkernelZDL
    vectors,             \* self.vectors
    losses,              \* self.losses
    nu,                  \* self.nu
    lam,                 \* self.lam
    intervention_count,  \* self.intervention_count
    printed,             \* lines evolve() has written to standard output
    ingested,            \* history variable: every (vector, loss) ever ingested
    calls                \* per caller: where its ingest() stands, with its
                         \* arguments and the slice it has read

kernel_vars == <<variant, vectors, losses, nu, lam, intervention_count, printed,
                 ingested, calls>>

\* TACEOracle (tace_oracle.py:15-30) and the threads around it.
VARIABLES
    interval_seconds,    \* self.interval_seconds, whole seconds
    min_omega_gain,      \* self.min_omega_gain
    history,             \* self.history
    running,             \* self.running
    thread,              \* self.thread: 0 is None, else a thread object
    wpc,                 \* per thread object: where its _loop stands
    cpc,                 \* per caller: where its start() or stop() stands
    joining,             \* per caller: the thread object its join() waits for
    clock,               \* the value time.time() returned last
    cycles,              \* cycles begun so far
    registered,          \* history variable: the value of every
                         \* register_metric_on_chain call
    recorded,            \* history variable: every snapshot ever appended
    restarted,           \* history variable, per caller in stop(): a start()
                         \* has set self.running since this stop() cleared it
    stop_returned,       \* history variable: a stop() has returned and no
                         \* start() has set self.running since it cleared it
    reader               \* a thread calling status(): where it stands, what
                         \* it has read, and what its last call returned

oracle_vars == <<interval_seconds, min_omega_gain, history, running, thread,
                 wpc, cpc, joining, clock, cycles, registered, recorded,
                 restarted, stop_returned, reader>>

vars == <<kernel_vars, oracle_vars>>

NuInit == Fx(80, 100)

LamInit == Fx(120, 100)

NuCap == Fx(95, 100)

LamCap == Fx(150, 100)

NuStep == Fx(2, 100)

LamStep == Fx(5, 100)

HamThreshold == Fx(1, 10)

\* Vectors a caller ingests: two directions of one dimensionality and a
\* longer vector.
Vectors == { <<ONE, 0>>, <<0, ONE>>, <<ONE, ONE, ONE>> }

\* Losses a caller ingests: the loss of the regression tests, a moderate one
\* whose tilted weight changes visibly with lam, and a large one.
Losses == { Fx(1, 100), ONE, 10 * ONE }

\* The (vector, loss) pairs a caller of SpecKernel ingests.
Samples ==
    { << <<ONE, 0>>, Fx(1, 100) >>,
      << <<0, ONE>>, Fx(1, 100) >>,
      << <<0, ONE>>, ONE >>,
      << <<ONE, 0>>, 10 * ONE >>,
      << <<ONE, ONE, ONE>>, Fx(1, 100) >> }

\* ingest() with the slice taken from the wrong end: [:10_000] keeps the
\* oldest samples.
ingest_keep_oldest(vs, ls, vector, loss) ==
    The({IF Len(vs1) > MaxSamples
         THEN [vectors |-> SubSeq(vs1, 1, MaxSamples),
               losses |-> SubSeq(ls1, 1, MaxSamples)]
         ELSE [vectors |-> vs1, losses |-> ls1] :
         vs1 \in {Append(vs, vector)}, ls1 \in {Append(ls, loss)}})

\* ingest() that slices the vector history and forgets the loss history.
ingest_slice_vectors_only(vs, ls, vector, loss) ==
    The({IF Len(vs1) > MaxSamples
         THEN [vectors |-> LastN(vs1, MaxSamples), losses |-> ls1]
         ELSE [vectors |-> vs1, losses |-> ls1] :
         vs1 \in {Append(vs, vector)}, ls1 \in {Append(ls, loss)}})

ingest(vs, ls, vector, loss) ==
    The({IF Len(vs1) > MaxSamples
         THEN [vectors |-> LastN(vs1, MaxSamples), losses |-> LastN(ls1, MaxSamples)]
         ELSE [vectors |-> vs1, losses |-> ls1] :
         vs1 \in {Append(vs, vector)}, ls1 \in {Append(ls, loss)}})

\* evolve() without the min() against the caps.
evolve_uncapped(ham, nu_, lam_, count) ==
    IF ham > HamThreshold
    THEN [nu |-> nu_ + NuStep, lam |-> lam_ + LamStep,
          intervention_count |-> count + 1, printed |-> 1]
    ELSE [nu |-> nu_, lam |-> lam_, intervention_count |-> count, printed |-> 0]

\* evolve() that tunes whatever self.hamiltonian() returned.
evolve_always(ham, nu_, lam_, count) ==
    [nu |-> Min(NuCap, nu_ + NuStep),
     lam |-> Min(LamCap, lam_ + LamStep),
     intervention_count |-> count + 1,
     printed |-> 1]

\* evolve() once self.hamiltonian() has returned ham.
evolve(ham, nu_, lam_, count) ==
    IF ham > HamThreshold
    THEN [nu |-> Min(NuCap, nu_ + NuStep),
          lam |-> Min(LamCap, lam_ + LamStep),
          intervention_count |-> count + 1,
          printed |-> 1]
    ELSE [nu |-> nu_, lam |-> lam_, intervention_count |-> count, printed |-> 0]

\* self.hamiltonian() of the kernel in use.
Hamiltonian ==
    IF variant = "zdl" THEN ZdlHamiltonian(vectors, losses, nu)
    ELSE hamiltonian(vectors, losses, nu, lam)

\* self.omega_score(), self.omega() of the kernel in use.
Omega ==
    IF variant = "zdl" THEN ZdlOmega(vectors, losses)
    ELSE omega_score(vectors, losses, lam)

\* self._psi(), self._theta() and the tail risk omega reads, of the kernel
\* in use.
Psi == IF variant = "zdl" THEN ZdlPsi(vectors) ELSE _psi(vectors)

Theta == IF variant = "zdl" THEN ZdlTheta(vectors) ELSE _theta(vectors)

Cvar == IF variant = "zdl" THEN ZdlCvar(losses) ELSE KernelCvar(losses, lam)

\* The losses dynamic_cvar works on: self.losses[-1000:] in omega_score and
\* hamiltonian of Superkernel, all of self.losses in SuperkernelZDL.
ConsideredLosses ==
    IF variant = "zdl" THEN losses ELSE LastN(losses, MaxCvarWindow)

\* The slice whose mean dynamic_cvar returns: weighted_losses[cut:],
\* sorted_losses[cut:].
CvarTail ==
    IF variant = "zdl"
    THEN The({From(sorted_losses, ZdlCut(Len(sorted_losses))) :
              sorted_losses \in {SortSeq(losses, LAMBDA a, b : a < b)}})
    ELSE The({From(weighted_losses, CvarCut(Len(weighted_losses))) :
              weighted_losses \in {WeightedLosses(ConsideredLosses, lam)}})

\* The histories of a newly made kernel after ingest() of samples[1..n].
RECURSIVE FedTo(_, _)
FedTo(samples, n) ==
    IF n = 0 THEN [vectors |-> << >>, losses |-> << >>]
    ELSE The({ingest(k.vectors, k.losses, samples[n][1], samples[n][2]) :
              k \in {FedTo(samples, n - 1)}})

\* The zero-dependency kernel truncates in zip() and never raises.
Raises == variant = "main" /\ MetricsRaise(vectors)

Callers == 1..NumCallers

\* A caller that is not inside ingest().
NoCall == [pc |-> "idle", vector |-> << >>, loss |-> 0, slice |-> << >>]

KernelInit ==
    /\ calls = [c \in Callers |-> NoCall]
    /\ vectors = << >>
    /\ losses = << >>
    /\ nu = NuInit
    /\ lam = LamInit
    /\ intervention_count = 0
    /\ printed = 0
    /\ ingested = << >>

Ingest(vector, loss) ==
    /\ Len(ingested) < MaxIngest
    /\ \E r \in {ingest(vectors, losses, vector, loss)} :
           /\ vectors' = r.vectors
           /\ losses' = r.losses
    /\ ingested' = Append(ingested, <<vector, loss>>)
    /\ UNCHANGED <<variant, nu, lam, intervention_count, printed, calls>>
    /\ UNCHANGED oracle_vars

\* evolve() returning normally.
Evolve ==
    /\ intervention_count < MaxEvolve
    /\ ~Raises
    /\ \E r \in {evolve(Hamiltonian, nu, lam, intervention_count)} :
           /\ nu' = r.nu
           /\ lam' = r.lam
           /\ intervention_count' = r.intervention_count
           /\ printed' = printed + r.printed
    /\ UNCHANGED <<variant, vectors, losses, ingested, calls>>
    /\ UNCHANGED oracle_vars

\* evolve() leaving by the IndexError of _centroid, before any assignment.
EvolveRaises ==
    /\ Raises
    /\ UNCHANGED <<variant, vectors, losses, nu, lam, intervention_count, printed,
                   ingested,
                   calls>>
    /\ UNCHANGED oracle_vars

\* ---- ingest() of a kernel shared by several callers, statement by
\* ---- statement (superkernel.py:103-108); nothing in it takes a lock

\* self.vectors.append(list(vector))
IngestAppendVector(c, vector, loss) ==
    /\ calls[c].pc = "idle"
    /\ Len(ingested) < MaxIngest
    /\ vectors' = Append(vectors, vector)
    /\ ingested' = Append(ingested, <<vector, loss>>)
    /\ calls' = [calls EXCEPT ![c] = [pc |-> "append_loss", vector |-> vector,
                                      loss |-> loss, slice |-> << >>]]
    /\ UNCHANGED <<variant, losses, nu, lam, intervention_count, printed>>
    /\ UNCHANGED oracle_vars

\* self.losses.append(loss)
IngestAppendLoss(c) ==
    /\ calls[c].pc = "append_loss"
    /\ losses' = Append(losses, calls[c].loss)
    /\ calls' = [calls EXCEPT ![c].pc = "test"]
    /\ UNCHANGED <<variant, vectors, nu, lam, intervention_count, printed,
                   ingested>>
    /\ UNCHANGED oracle_vars

\* if len(self.vectors) > 10_000: (else ingest() returns)
IngestTest(c) ==
    /\ calls[c].pc = "test"
    /\ calls' = [calls EXCEPT ![c] = IF Len(vectors) > MaxSamples
                                     THEN [@ EXCEPT !.pc = "slice_vectors"]
                                     ELSE NoCall]
    /\ UNCHANGED <<variant, vectors, losses, nu, lam, intervention_count, printed,
                   ingested>>
    /\ UNCHANGED oracle_vars

\* self.vectors[-10_000:], the right-hand side
IngestSliceVectors(c) ==
    /\ calls[c].pc = "slice_vectors"
    /\ calls' = [calls EXCEPT ![c].pc = "store_vectors",
                              ![c].slice = LastN(vectors, MaxSamples)]
    /\ UNCHANGED <<variant, vectors, losses, nu, lam, intervention_count, printed,
                   ingested>>
    /\ UNCHANGED oracle_vars

\* self.vectors = ..., the assignment
IngestStoreVectors(c) ==
    /\ calls[c].pc = "store_vectors"
    /\ vectors' = calls[c].slice
    /\ calls' = [calls EXCEPT ![c].pc = "slice_losses", ![c].slice = << >>]
    /\ UNCHANGED <<variant, losses, nu, lam, intervention_count, printed,
                   ingested>>
    /\ UNCHANGED oracle_vars

\* self.losses[-10_000:], the right-hand side
IngestSliceLosses(c) ==
    /\ calls[c].pc = "slice_losses"
    /\ calls' = [calls EXCEPT ![c].pc = "store_losses",
                              ![c].slice = LastN(losses, MaxSamples)]
    /\ UNCHANGED <<variant, vectors, losses, nu, lam, intervention_count, printed,
                   ingested>>
    /\ UNCHANGED oracle_vars

\* self.losses = ..., the assignment, after which ingest() returns
IngestStoreLosses(c) ==
    /\ calls[c].pc = "store_losses"
    /\ losses' = calls[c].slice
    /\ calls' = [calls EXCEPT ![c] = NoCall]
    /\ UNCHANGED <<variant, vectors, nu, lam, intervention_count, printed,
                   ingested>>
    /\ UNCHANGED oracle_vars

\* ------------------------------------------------------------------------
\* TACEOracle (tace_oracle.py:15-87)
\* ------------------------------------------------------------------------

Threads == 1..MaxThreads

\* interval_seconds as configured: the default, and a negative one, which
\* the constructor stores as it stores any other.
Intervals == {30, 0 - 1}

\* min_omega_gain as configured: the default 0.0005 and a coarse 0.1.
MinGains == {Fx(5, 10000), Fx(1, 10)}

\* Seconds between two readings of time.time(); 0 and -1 are readings of a
\* clock that stood still or was set back.
ClockSteps == {0 - 1, 0, 1}

\* A rate is a quotient num/den with den > 0.
Zero == [num |-> 0, den |-> 1]

\* The reader outside status(), before its first call.
NoStatus ==
    [pc |-> "idle", running |-> FALSE, samples |-> 0, t_now |-> 0, dt |-> 0,
     o_now |-> 0, result |-> [running |-> FALSE, samples |-> 0, d_omega_dt |-> Zero]]

\* The reader as status() returns running_, samples and rate.
Returned(running_, samples, rate) ==
    [NoStatus EXCEPT !.result = [running |-> running_, samples |-> samples,
                                 d_omega_dt |-> rate]]

OracleInit ==
    /\ history = << >>
    /\ running = FALSE
    /\ thread = 0
    /\ wpc = [t \in Threads |-> "unborn"]
    /\ cpc = [c \in Callers |-> "idle"]
    /\ joining = [c \in Callers |-> 0]
    /\ clock = 0
    /\ cycles = 0
    /\ registered = << >>
    /\ recorded = << >>
    /\ restarted = [c \in Callers |-> FALSE]
    /\ stop_returned = FALSE
    /\ reader = NoStatus

\* time.sleep(secs) raises ValueError for a negative secs.
SleepRaises(secs) == secs < 0

_compute_d_omega_dt(h) ==
    IF Len(h) < 2 THEN Zero
    ELSE The({IF dt > 0 THEN [num |-> domega, den |-> dt] ELSE Zero :
              dt \in {h[Len(h)].timestamp - h[Len(h) - 1].timestamp},
              domega \in {h[Len(h)].omega - h[Len(h) - 1].omega}})

\* _trigger_if_needed without the test of omega_gain against min_omega_gain.
_trigger_if_rising(h, min_gain) == _compute_d_omega_dt(h).num > 0

\* _trigger_if_needed after _record_state: whether it goes on to call
\* register_metric_on_chain.
_trigger_if_needed(h, min_gain) ==
    IF _compute_d_omega_dt(h).num <= 0 THEN FALSE
    ELSE The({omega_gain >= min_gain :
              omega_gain \in {IF Len(h) >= 2
                              THEN h[Len(h)].omega - h[Len(h) - 1].omega
                              ELSE 0}})

\* self.history.append({"timestamp": time.time(), **health})
Snapshot(now, health) ==
    [timestamp          |-> now,
     omega              |-> health.omega,
     hamiltonian        |-> health.hamiltonian,
     psi                |-> health.psi,
     theta              |-> health.theta,
     cvar               |-> health.cvar,
     intervention_count |-> health.intervention_count]

\* The eviction with the sign of the slice lost: [1000:] keeps what is
\* beyond the capacity.
Evict_keep_overflow(h) ==
    IF Len(h) > MaxSnapshots THEN SubSeq(h, MaxSnapshots + 1, Len(h)) ELSE h

\* The eviction with the slice taken from the wrong end: [:1000].
Evict_keep_oldest(h) ==
    IF Len(h) > MaxSnapshots THEN SubSeq(h, 1, MaxSnapshots) ELSE h

\* if len(self.history) > 1000: self.history = self.history[-1000:]
Evict(h) == IF Len(h) > MaxSnapshots THEN LastN(h, MaxSnapshots) ELSE h

Finished(t) == wpc[t] \in {"done", "crashed"}

Started(t) == wpc[t] \notin {"unborn", "created"}

\* ---- _loop, statement by statement (tace_oracle.py:60-68) ----

\* while self.running:
LoopTest(t, max_cycles) ==
    /\ wpc[t] = "while"
    /\ IF running
       THEN /\ cycles < max_cycles
            /\ cycles' = cycles + 1
            /\ wpc' = [wpc EXCEPT ![t] = "evolve"]
       ELSE /\ wpc' = [wpc EXCEPT ![t] = "done"]
            /\ UNCHANGED cycles
    /\ UNCHANGED reader
    /\ UNCHANGED <<interval_seconds, min_omega_gain, history, running, thread,
                   cpc, joining, clock, registered, recorded, restarted,
                   stop_returned>>
    /\ UNCHANGED kernel_vars

\* self.kernel.evolve()
LoopEvolve(t) ==
    /\ wpc[t] = "evolve"
    /\ IF Raises
       THEN /\ wpc' = [wpc EXCEPT ![t] = "except"]
            /\ UNCHANGED <<nu, lam, intervention_count, printed>>
       ELSE \E r \in {evolve(Hamiltonian, nu, lam, intervention_count)} :
            /\ nu' = r.nu
            /\ lam' = r.lam
            /\ intervention_count' = r.intervention_count
            /\ printed' = printed + r.printed
            /\ wpc' = [wpc EXCEPT ![t] = "record"]
    /\ UNCHANGED <<variant, vectors, losses, ingested, calls>>
    /\ UNCHANGED reader
    /\ UNCHANGED <<interval_seconds, min_omega_gain, history, running, thread,
                   cpc, joining, clock, cycles, registered, recorded, restarted,
                   stop_returned>>

\* _record_state: health = ...; self.history.append(...)
LoopRecord(t, steps) ==
    /\ wpc[t] = "record"
    /\ IF Raises
       THEN /\ wpc' = [wpc EXCEPT ![t] = "except"]
            /\ UNCHANGED <<history, clock, recorded>>
       ELSE \E step \in steps :
            \E snap \in {Snapshot(clock + step,
                                  assess_system_health(vectors, losses, nu, lam,
                                                       intervention_count))} :
            /\ clock' = clock + step
            /\ history' = Append(history, snap)
            /\ recorded' = Append(recorded, snap)
            /\ wpc' = [wpc EXCEPT ![t] = "evict"]
    /\ UNCHANGED reader
    /\ UNCHANGED <<interval_seconds, min_omega_gain, running, thread, cpc,
                   joining, cycles, registered, restarted, stop_returned>>
    /\ UNCHANGED kernel_vars

\* _record_state: if len(self.history) > 1000: ...
LoopEvict(t) ==
    /\ wpc[t] = "evict"
    /\ history' = Evict(history)
    /\ wpc' = [wpc EXCEPT ![t] = "decide"]
    /\ UNCHANGED reader
    /\ UNCHANGED <<interval_seconds, min_omega_gain, running, thread, cpc,
                   joining, clock, cycles, registered, recorded, restarted,
                   stop_returned>>
    /\ UNCHANGED kernel_vars

\* A trigger that takes its snapshot back out of the history when
\* register_metric_on_chain raises.
LoopDecide_rollback(t) ==
    /\ wpc[t] = "decide"
    /\ IF _trigger_if_needed(history, min_omega_gain)
       THEN /\ registered' = Append(registered, history[Len(history)].omega)
            /\ \E ok \in BOOLEAN :
                   /\ wpc' = [wpc EXCEPT ![t] = IF ok THEN "sleep" ELSE "except"]
                   /\ history' = IF ok THEN history
                                 ELSE SubSeq(history, 1, Len(history) - 1)
       ELSE /\ wpc' = [wpc EXCEPT ![t] = "sleep"]
            /\ UNCHANGED <<registered, history>>
    /\ UNCHANGED reader
    /\ UNCHANGED <<interval_seconds, min_omega_gain, running, thread,
                   cpc, joining, clock, cycles, recorded, restarted,
                   stop_returned>>
    /\ UNCHANGED kernel_vars

\* A loop that looks at the running flag again before the trigger decision
\* and ends there once stop() has cleared it.
LoopDecide_unless_stopped(t) ==
    /\ wpc[t] = "decide"
    /\ IF ~running
       THEN /\ wpc' = [wpc EXCEPT ![t] = "done"]
            /\ UNCHANGED registered
       ELSE IF _trigger_if_needed(history, min_omega_gain)
       THEN /\ registered' = Append(registered, history[Len(history)].omega)
            /\ \E ok \in BOOLEAN :
                   wpc' = [wpc EXCEPT ![t] = IF ok THEN "sleep" ELSE "except"]
       ELSE /\ wpc' = [wpc EXCEPT ![t] = "sleep"]
            /\ UNCHANGED registered
    /\ UNCHANGED reader
    /\ UNCHANGED <<interval_seconds, min_omega_gain, history, running, thread,
                   cpc, joining, clock, cycles, recorded, restarted,
                   stop_returned>>
    /\ UNCHANGED kernel_vars

\* _trigger_if_needed after _record_state; register_metric_on_chain returns
\* a transaction hash or raises.
LoopDecide(t) ==
    /\ wpc[t] = "decide"
    /\ IF _trigger_if_needed(history, min_omega_gain)
       THEN /\ registered' = Append(registered, history[Len(history)].omega)
            /\ \E ok \in BOOLEAN :
                   wpc' = [wpc EXCEPT ![t] = IF ok THEN "sleep" ELSE "except"]
       ELSE /\ wpc' = [wpc EXCEPT ![t] = "sleep"]
            /\ UNCHANGED registered
    /\ UNCHANGED reader
    /\ UNCHANGED <<interval_seconds, min_omega_gain, history, running, thread,
                   cpc, joining, clock, cycles, recorded, restarted,
                   stop_returned>>
    /\ UNCHANGED kernel_vars

\* time.sleep(self.interval_seconds) in the try block
LoopSleep(t) ==
    /\ wpc[t] = "sleep"
    /\ wpc' = [wpc EXCEPT ![t] = IF SleepRaises(interval_seconds)
                                 THEN "except" ELSE "while"]
    /\ UNCHANGED reader
    /\ UNCHANGED <<interval_seconds, min_omega_gain, history, running, thread,
                   cpc, joining, clock, cycles, registered, recorded, restarted,
                   stop_returned>>
    /\ UNCHANGED kernel_vars

\* except Exception: print(...); time.sleep(self.interval_seconds).  An
\* error of this sleep leaves _loop, and the thread ends.
LoopExcept(t) ==
    /\ wpc[t] = "except"
    /\ wpc' = [wpc EXCEPT ![t] = IF SleepRaises(interval_seconds)
                                 THEN "crashed" ELSE "while"]
    /\ UNCHANGED reader
    /\ UNCHANGED <<interval_seconds, min_omega_gain, history, running, thread,
                   cpc, joining, clock, cycles, registered, recorded, restarted,
                   stop_returned>>
    /\ UNCHANGED kernel_vars

\* ---- start(), statement by statement (tace_oracle.py:70-75) ----

\* Thread objects made so far, and start() calls that are about to make one.
ThreadsClaimed ==
    Cardinality({t \in Threads : wpc[t] # "unborn"})
    + Cardinality({c \in Callers : cpc[c] \in {"start_set", "start_new"}})

\* if self.running: return
StartTest(c) ==
    /\ cpc[c] = "idle"
    /\ ThreadsClaimed < MaxThreads
    /\ cpc' = [cpc EXCEPT ![c] = IF running THEN "idle" ELSE "start_set"]
    /\ UNCHANGED reader
    /\ UNCHANGED <<interval_seconds, min_omega_gain, history, running, thread,
                   wpc, joining, clock, cycles, registered, recorded, restarted,
                   stop_returned>>
    /\ UNCHANGED kernel_vars

\* self.running = True
StartSet(c) ==
    /\ cpc[c] = "start_set"
    /\ running' = TRUE
    /\ restarted' = [d \in Callers |-> TRUE]
    /\ stop_returned' = FALSE
    /\ cpc' = [cpc EXCEPT ![c] = "start_new"]
    /\ UNCHANGED reader
    /\ UNCHANGED <<interval_seconds, min_omega_gain, history, thread, wpc,
                   joining, clock, cycles, registered, recorded>>
    /\ UNCHANGED kernel_vars

\* self.thread = threading.Thread(target=self._loop, daemon=True)
StartNew(c) ==
    /\ cpc[c] = "start_new"
    /\ \E t \in Threads :
           /\ wpc[t] = "unborn"
           /\ \A u \in Threads : u < t => wpc[u] # "unborn"
           /\ wpc' = [wpc EXCEPT ![t] = "created"]
           /\ thread' = t
    /\ cpc' = [cpc EXCEPT ![c] = "start_run"]
    /\ UNCHANGED reader
    /\ UNCHANGED <<interval_seconds, min_omega_gain, history, running, joining,
                   clock, cycles, registered, recorded, restarted, stop_returned>>
    /\ UNCHANGED kernel_vars

\* self.thread.start(): RuntimeError when that thread was started before.
StartRun(c) ==
    /\ cpc[c] = "start_run"
    /\ wpc' = IF wpc[thread] = "created"
              THEN [wpc EXCEPT ![thread] = "while"] ELSE wpc
    /\ cpc' = [cpc EXCEPT ![c] = "idle"]
    /\ UNCHANGED reader
    /\ UNCHANGED <<interval_seconds, min_omega_gain, history, running, thread,
                   joining, clock, cycles, registered, recorded, restarted,
                   stop_returned>>
    /\ UNCHANGED kernel_vars

\* ---- stop(), statement by statement (tace_oracle.py:77-80) ----

\* self.running = False
StopClear(c) ==
    /\ cpc[c] = "idle"
    /\ running' = FALSE
    /\ restarted' = [restarted EXCEPT ![c] = FALSE]
    /\ cpc' = [cpc EXCEPT ![c] = "stop_test"]
    /\ UNCHANGED reader
    /\ UNCHANGED <<interval_seconds, min_omega_gain, history, thread, wpc,
                   joining, clock, cycles, registered, recorded, stop_returned>>
    /\ UNCHANGED kernel_vars

\* if self.thread: (else stop() returns)
StopTest(c) ==
    /\ cpc[c] = "stop_test"
    /\ IF thread # 0
       THEN /\ cpc' = [cpc EXCEPT ![c] = "stop_join"]
            /\ UNCHANGED stop_returned
       ELSE /\ cpc' = [cpc EXCEPT ![c] = "idle"]
            /\ stop_returned' = (stop_returned \/ ~restarted[c])
    /\ UNCHANGED reader
    /\ UNCHANGED <<interval_seconds, min_omega_gain, history, running, thread,
                   wpc, joining, clock, cycles, registered, recorded, restarted>>
    /\ UNCHANGED kernel_vars

\* self.thread.join(): RuntimeError when that thread was not started yet.
StopJoin(c) ==
    /\ cpc[c] = "stop_join"
    /\ IF Started(thread)
       THEN /\ joining' = [joining EXCEPT ![c] = thread]
            /\ cpc' = [cpc EXCEPT ![c] = "stop_wait"]
       ELSE /\ cpc' = [cpc EXCEPT ![c] = "idle"]
            /\ UNCHANGED joining
    /\ UNCHANGED reader
    /\ UNCHANGED <<interval_seconds, min_omega_gain, history, running, thread,
                   wpc, clock, cycles, registered, recorded, restarted,
                   stop_returned>>
    /\ UNCHANGED kernel_vars

\* join() returns once the thread has ended, and stop() returns with it.
StopWait(c) ==
    /\ cpc[c] = "stop_wait"
    /\ Finished(joining[c])
    /\ joining' = [joining EXCEPT ![c] = 0]
    /\ cpc' = [cpc EXCEPT ![c] = "idle"]
    /\ stop_returned' = (stop_returned \/ ~restarted[c])
    /\ UNCHANGED reader
    /\ UNCHANGED <<interval_seconds, min_omega_gain, history, running, thread,
                   wpc, clock, cycles, registered, recorded, restarted>>
    /\ UNCHANGED kernel_vars

\* ---- status(), read by read (tace_oracle.py:82-87, 38-43).  Every
\* ---- self.history below is a fresh read of the attribute.

\* "running": self.running
StatusRunning ==
    /\ reader.pc = "idle"
    /\ reader' = [reader EXCEPT !.pc = "samples", !.running = running]
    /\ UNCHANGED <<interval_seconds, min_omega_gain, history, running, thread,
                   wpc, cpc, joining, clock, cycles, registered, recorded,
                   restarted, stop_returned>>
    /\ UNCHANGED kernel_vars

\* "samples": len(self.history)
StatusSamples ==
    /\ reader.pc = "samples"
    /\ reader' = [reader EXCEPT !.pc = "length", !.samples = Len(history)]
    /\ UNCHANGED <<interval_seconds, min_omega_gain, history, running, thread,
                   wpc, cpc, joining, clock, cycles, registered, recorded,
                   restarted, stop_returned>>
    /\ UNCHANGED kernel_vars

\* if len(self.history) < 2: return 0.0, and status() returns
StatusLength ==
    /\ reader.pc = "length"
    /\ reader' = IF Len(history) < 2
                 THEN Returned(reader.running, reader.samples, Zero)
                 ELSE [reader EXCEPT !.pc = "t_now"]
    /\ UNCHANGED <<interval_seconds, min_omega_gain, history, running, thread,
                   wpc, cpc, joining, clock, cycles, registered, recorded,
                   restarted, stop_returned>>
    /\ UNCHANGED kernel_vars

\* self.history[-1]["timestamp"]: IndexError on an empty list
StatusTimeNow ==
    /\ reader.pc = "t_now"
    /\ reader' = IF Len(history) < 1
                 THEN [reader EXCEPT !.pc = "raised"]
                 ELSE [reader EXCEPT !.pc = "t_prev",
                                     !.t_now = history[Len(history)].timestamp]
    /\ UNCHANGED <<interval_seconds, min_omega_gain, history, running, thread,
                   wpc, cpc, joining, clock, cycles, registered, recorded,
                   restarted, stop_returned>>
    /\ UNCHANGED kernel_vars

\* dt = ... - self.history[-2]["timestamp"]: IndexError below two entries
StatusTimePrev ==
    /\ reader.pc = "t_prev"
    /\ reader' = IF Len(history) < 2
                 THEN [reader EXCEPT !.pc = "raised"]
                 ELSE [reader EXCEPT !.pc = "o_now",
                                     !.dt = reader.t_now
                                            - history[Len(history) - 1].timestamp]
    /\ UNCHANGED <<interval_seconds, min_omega_gain, history, running, thread,
                   wpc, cpc, joining, clock, cycles, registered, recorded,
                   restarted, stop_returned>>
    /\ UNCHANGED kernel_vars

\* self.history[-1]["omega"]
StatusOmegaNow ==
    /\ reader.pc = "o_now"
    /\ reader' = IF Len(history) < 1
                 THEN [reader EXCEPT !.pc = "raised"]
                 ELSE [reader EXCEPT !.pc = "o_prev",
                                     !.o_now = history[Len(history)].omega]
    /\ UNCHANGED <<interval_seconds, min_omega_gain, history, running, thread,
                   wpc, cpc, joining, clock, cycles, registered, recorded,
                   restarted, stop_returned>>
    /\ UNCHANGED kernel_vars

\* domega = ... - self.history[-2]["omega"]; return domega / dt if dt > 0
\* else 0.0, and status() returns
StatusOmegaPrev ==
    /\ reader.pc = "o_prev"
    /\ reader' =
           IF Len(history) < 2
           THEN [reader EXCEPT !.pc = "raised"]
           ELSE Returned(reader.running, reader.samples,
                         IF reader.dt > 0
                         THEN [num |-> reader.o_now
                                       - history[Len(history) - 1].omega,
                               den |-> reader.dt]
                         ELSE Zero)
    /\ UNCHANGED <<interval_seconds, min_omega_gain, history, running, thread,
                   wpc, cpc, joining, clock, cycles, registered, recorded,
                   restarted, stop_returned>>
    /\ UNCHANGED kernel_vars

\* Another party ingests a sample into the oracle's kernel.
Feed(vector, loss, max_fed) ==
    /\ Len(ingested) < max_fed
    /\ Ingest(vector, loss)

\* The samples fed to the oracle's kernel: a large loss, a small one, a
\* longer vector.
FedSamples ==
    { << <<ONE, 0>>, 10 * ONE >>,
      << <<0, ONE>>, Fx(1, 100) >>,
      << <<ONE, ONE, ONE>>, Fx(1, 100) >> }

\* ------------------------------------------------------------------------
\* Spec: one oracle on one Superkernel, callers and workers interleaved
\* ------------------------------------------------------------------------

\* The command line seeds the kernel before it makes the oracle
\* (superkernel_cli.py:14-17); here with one sample of a large loss.
Seed == << <<ONE, 0>>, 10 * ONE >>

SeededKernelInit ==
    /\ calls = [c \in Callers |-> NoCall]
    /\ vectors = << Seed[1] >>
    /\ losses = << Seed[2] >>
    /\ nu = NuInit
    /\ lam = LamInit
    /\ intervention_count = 0
    /\ printed = 0
    /\ ingested = << Seed >>

Init ==
    /\ variant = "main"
    /\ SeededKernelInit
    /\ interval_seconds \in Intervals
    /\ min_omega_gain = Fx(5, 10000)
    /\ OracleInit

Next ==
    \/ \E t \in Threads :
           \/ LoopTest(t, MaxRaceCycles)
           \/ LoopEvolve(t)
           \/ LoopRecord(t, {1})
           \/ LoopEvict(t)
           \/ LoopDecide(t)
           \/ LoopSleep(t)
           \/ LoopExcept(t)
    \/ \E c \in Callers :
           \/ StartTest(c)
           \/ StartSet(c)
           \/ StartNew(c)
           \/ StartRun(c)
           \/ StopClear(c)
           \/ StopTest(c)
           \/ StopJoin(c)
           \/ StopWait(c)
    \/ \E sample \in FedSamples : Feed(sample[1], sample[2], 1 + MaxRaceFeed)

Spec == Init /\ [][Next]_vars

\* One caller that calls start() and stop() in any order while the workers
\* and the kernel's feeder run.
NextCycle ==
    \/ \E t \in Threads :
           \/ LoopTest(t, MaxCycles)
           \/ LoopEvolve(t)
           \/ LoopRecord(t, {1})
           \/ LoopEvict(t)
           \/ LoopDecide(t)
           \/ LoopSleep(t)
           \/ LoopExcept(t)
    \/ \E c \in {1} :
           \/ StartTest(c)
           \/ StartSet(c)
           \/ StartNew(c)
           \/ StartRun(c)
           \/ StopClear(c)
           \/ StopTest(c)
           \/ StopJoin(c)
           \/ StopWait(c)
    \/ \E sample \in FedSamples : Feed(sample[1], sample[2], 1 + MaxRaceFeed)

SpecCycle == Init /\ [][NextCycle]_vars

\* ---- _loop as far as its termination goes (tace_oracle.py:60-68): a
\* ---- worker that may go round for ever.  The intervention counter and the
\* ---- timestamps grow without bound in the code, and no step of a cycle
\* ---- reads them to decide where the loop goes, so the steps here keep
\* ---- the position of the worker and leave out what the cycle stores.

\* while self.running:
LoopTestOn(t) ==
    /\ wpc[t] = "while"
    /\ wpc' = [wpc EXCEPT ![t] = IF running THEN "evolve" ELSE "done"]
    /\ UNCHANGED reader
    /\ UNCHANGED <<interval_seconds, min_omega_gain, history, running, thread,
                   cpc, joining, clock, cycles, registered, recorded, restarted,
                   stop_returned>>
    /\ UNCHANGED kernel_vars

\* self.kernel.evolve(); self._trigger_if_needed(): each returns, or raises
\* into the handler.
LoopBodyOn(t) ==
    /\ wpc[t] \in {"evolve", "record", "evict", "decide"}
    /\ \E ok \in BOOLEAN :
           wpc' = [wpc EXCEPT ![t] =
                       IF ~ok THEN "except"
                       ELSE CASE wpc[t] = "evolve" -> "record"
                              [] wpc[t] = "record" -> "evict"
                              [] wpc[t] = "evict" -> "decide"
                              [] OTHER -> "sleep"]
    /\ UNCHANGED reader
    /\ UNCHANGED <<interval_seconds, min_omega_gain, history, running, thread,
                   cpc, joining, clock, cycles, registered, recorded, restarted,
                   stop_returned>>
    /\ UNCHANGED kernel_vars

\* The steps of a worker: threading runs every started thread, and every
\* step of a cycle returns.
WorkerStep(t) ==
    \/ LoopTestOn(t)
    \/ LoopBodyOn(t)
    \/ LoopSleep(t)
    \/ LoopExcept(t)

\* The statements of start() and stop() that follow the first one: a caller
\* inside a call goes on with it.
CallerStep(c) ==
    \/ StartSet(c)
    \/ StartNew(c)
    \/ StartRun(c)
    \/ StopTest(c)
    \/ StopJoin(c)
    \/ StopWait(c)

\* Callers that call start(), stop() and status() at any time and in any
\* order, next to workers that go round for as long as self.running holds.
NextFair ==
    \/ \E t \in Threads : WorkerStep(t)
    \/ \E c \in Callers :
           \/ StartTest(c)
           \/ StopClear(c)
           \/ CallerStep(c)
    \/ StatusRunning
    \/ StatusSamples
    \/ StatusLength

SpecFair ==
    /\ Init
    /\ [][NextFair]_vars
    /\ \A t \in Threads : WF_vars(WorkerStep(t))
    /\ \A c \in Callers : WF_vars(CallerStep(c))

\* ------------------------------------------------------------------------
\* SpecLoop: the control loop after one start() of a single caller, over
\* more cycles, clock readings and kernel contents than Spec
\* ------------------------------------------------------------------------

InitLoop ==
    /\ variant = "main"
    /\ KernelInit
    /\ interval_seconds \in Intervals
    /\ min_omega_gain \in MinGains
    /\ OracleInit

NextLoop ==
    \/ \E t \in Threads :
           \/ LoopTest(t, MaxCycles)
           \/ LoopEvolve(t)
           \/ LoopRecord(t, ClockSteps)
           \/ LoopEvict(t)
           \/ LoopDecide(t)
           \/ LoopSleep(t)
           \/ LoopExcept(t)
    \/ \E c \in {1} :
           \/ StartTest(c)
           \/ StartSet(c)
           \/ StartNew(c)
           \/ StartRun(c)
    \/ \E sample \in FedSamples : Feed(sample[1], sample[2], MaxFeed)

SpecLoop == InitLoop /\ [][NextLoop]_vars

\* ------------------------------------------------------------------------
\* SpecStatus: a reader calling status() again and again while the worker
\* that one start() made runs its cycles
\* ------------------------------------------------------------------------

NextStatus ==
    \/ \E t \in Threads :
           \/ LoopTest(t, MaxCycles)
           \/ LoopEvolve(t)
           \/ LoopRecord(t, {1})
           \/ LoopEvict(t)
           \/ LoopDecide(t)
           \/ LoopSleep(t)
           \/ LoopExcept(t)
    \/ \E c \in {1} :
           \/ StartTest(c)
           \/ StartSet(c)
           \/ StartNew(c)
           \/ StartRun(c)
    \/ StatusRunning
    \/ StatusSamples
    \/ StatusLength
    \/ StatusTimeNow
    \/ StatusTimePrev
    \/ StatusOmegaNow
    \/ StatusOmegaPrev
    \/ \E sample \in FedSamples : Feed(sample[1], sample[2], 1 + MaxRaceFeed)

SpecStatus == Init /\ [][NextStatus]_vars

\* ------------------------------------------------------------------------
\* SpecKernel: one caller using one kernel, operation after operation
\* ------------------------------------------------------------------------

InitKernel ==
    /\ variant \in {"main", "zdl"}
    /\ KernelInit
    /\ interval_seconds = 30
    /\ min_omega_gain = Fx(5, 10000)
    /\ OracleInit

NextKernel ==
    \/ \E sample \in Samples : Ingest(sample[1], sample[2])
    \/ Evolve
    \/ EvolveRaises

SpecKernel == InitKernel /\ [][NextKernel]_vars

\* ------------------------------------------------------------------------
\* SpecShared: one kernel whose ingest() several callers run at once
\* ------------------------------------------------------------------------

\* What the callers ingest: two samples that differ in vector and in loss.
SharedSamples ==
    { << <<ONE, 0>>, Fx(1, 100) >>,
      << <<0, ONE>>, 10 * ONE >> }

NextShared ==
    \E c \in Callers :
        \/ \E sample \in SharedSamples : IngestAppendVector(c, sample[1], sample[2])
        \/ IngestAppendLoss(c)
        \/ IngestTest(c)
        \/ IngestSliceVectors(c)
        \/ IngestStoreVectors(c)
        \/ IngestSliceLosses(c)
        \/ IngestStoreLosses(c)

SpecShared == InitKernel /\ [][NextShared]_vars

\* ------------------------------------------------------------------------
\* Properties of the metric kernel (SpecKernel)
\* ------------------------------------------------------------------------

\* The i-th retained sample, vector paired with loss.
Sample(i) == <<vectors[i], losses[i]>>

\* C5: after n ingest calls on a fresh kernel the histories hold exactly the
\* most recent min(n, capacity) samples in their original order, each vector
\* still next to its own loss; the oldest samples are the evicted ones.
C5_MostRecentRetained ==
    /\ Len(vectors) = Min(Len(ingested), MaxSamples)
    /\ Len(losses) = Len(vectors)
    /\ \A i \in 1..Len(vectors) : Sample(i) = LastN(ingested, MaxSamples)[i]

\* An eviction has happened and dropped a sample that differs in vector and
\* in loss from the sample that replaced it at the head.
C5_Witness ==
    /\ Len(ingested) > MaxSamples
    /\ Len(vectors) = MaxSamples
    /\ ingested[1][1] # vectors[1]
    /\ ingested[1][2] # losses[1]

Saturated == nu = NuCap /\ lam = LamCap

\* C6: nu and lam never decrease, nu stays within [0.80, 0.95] and lam
\* within [1.20, 1.5], and a step that counts an intervention raises nu by
\* 0.02 and lam by 0.05, each clipped at its cap.
C6_MonotoneWithinCaps ==
    /\ [](NuInit <= nu /\ nu <= NuCap /\ LamInit <= lam /\ lam <= LamCap)
    /\ [][/\ nu' >= nu
          /\ lam' >= lam
          /\ intervention_count' # intervention_count =>
                 /\ nu' = Min(NuCap, nu + NuStep)
                 /\ lam' = Min(LamCap, lam + LamStep)]_vars

\* Both parameters were clipped: eight interventions take nu from 0.80 past
\* 0.94 and lam from 1.20 past 1.45.
C6_Witness == Saturated /\ intervention_count * NuStep > NuCap - NuInit

\* C7: once nu = 0.95 and lam = 1.5, no step changes nu, lam or the
\* intervention counter.
C7_SaturatedNoOp ==
    [][Saturated =>
          /\ nu' = nu
          /\ lam' = lam
          /\ intervention_count' = intervention_count]_vars

\* C8: between operations the two histories have the same length, at most
\* the capacity, and only a step that is an ingest changes either of them.
C8_HistoriesInStep ==
    /\ [](Len(vectors) = Len(losses) /\ Len(vectors) <= MaxSamples)
    /\ [][(vectors' # vectors \/ losses' # losses) =>
              ingested' = Append(ingested, <<vectors'[Len(vectors')], losses'[Len(losses')]>>)]_vars

\* Full histories after an eviction, with interventions counted in between.
C8_Witness ==
    /\ Len(ingested) > MaxSamples
    /\ Len(vectors) = MaxSamples
    /\ Len(losses) = MaxSamples
    /\ intervention_count > 0

\* The composite score of a second kernel, newly made and fed the samples
\* that this kernel stores, in their order.
ScoreOfTwin ==
    The({IF variant = "zdl" THEN ZdlOmega(twin.vectors, twin.losses)
         ELSE omega_score(twin.vectors, twin.losses, LamInit) :
         twin \in {FedTo([i \in 1..Len(vectors) |-> Sample(i)], Len(vectors))}})

\* C13: the composite score depends on the stored histories only: the
\* kernel, whatever ingest() and evolve() calls it went through, has the
\* score of a second kernel that stores the same histories.
C13_ScoreOfHistoryAlone == ~Raises => Omega = ScoreOfTwin

\* C14: evolve() never lowers the composite score of a kernel that holds
\* samples: the score after a step that is not an ingest is at least the
\* score before it.
C14_EvolveKeepsScore ==
    [][(Len(vectors) > 0 /\ ingested' = ingested) => Omega' >= Omega]_vars

\* C15: with hamiltonian() at or below 0.1, evolve() leaves nu, lam, the
\* intervention counter and both histories as they were and prints nothing;
\* with hamiltonian() above 0.1 it adds exactly 1 to the intervention counter
\* and leaves both histories as they were.
C15_EvolveFrame ==
    /\ [](~Raises =>
            LET r == evolve(Hamiltonian, nu, lam, intervention_count)
            IN  IF Hamiltonian <= HamThreshold
                THEN /\ r.nu = nu
                     /\ r.lam = lam
                     /\ r.intervention_count = intervention_count
                     /\ r.printed = 0
                ELSE r.intervention_count = intervention_count + 1)
    /\ [][ingested' = ingested =>
            /\ UNCHANGED <<vectors, losses>>
            /\ IF Hamiltonian <= HamThreshold
               THEN UNCHANGED <<nu, lam, intervention_count, printed>>
               ELSE intervention_count' = intervention_count + 1]_vars

\* A kernel that has tuned itself and whose hamiltonian() is now at or below
\* 0.1, where evolve() can be called again.
C15_Witness ==
    /\ ~Raises
    /\ intervention_count > 0
    /\ intervention_count < MaxEvolve
    /\ Hamiltonian <= HamThreshold

\* C17: whatever the lengths of the vectors ingested, the metrics and
\* evolve() of the kernel return a value and do not raise.
C17_MixedLengthsNeverRaise ==
    \/ Len(vectors) = 0
    \/ ~(variant = "main" /\ MetricsRaise(vectors))

\* C18: the tail that dynamic_cvar averages holds at most
\* ceil((1 - alpha) * n) of the n losses considered, and the losses
\* considered are the most recent ones, as many as the window holds.
C18_TailIsWorstFraction ==
    LET n == Len(ConsideredLosses)
    IN  Len(losses) > 0 =>
            /\ Len(CvarTail) <= ((100 - ALPHA_PCT) * n + 99) \div 100
            /\ ConsideredLosses = LastN(losses, MaxCvarWindow)

\* C19: with fewer than two vectors stored _psi is 1.0, with no vector
\* stored _theta is 1.0, with no loss stored the tail risk is 0.0, and the
\* score of a kernel that stores nothing is 0.4 + 0.3 + 0.2 + 0.1 (1.0 at
\* the resolution of the model).
C19_Fallbacks ==
    /\ Len(vectors) < 2 => Psi = ONE
    /\ Len(vectors) = 0 => Theta = ONE
    /\ Len(losses) = 0 => Cvar = 0
    /\ (Len(vectors) = 0 /\ Len(losses) = 0) => Omega = ONE

\* A kernel that stores exactly one vector, after one that stored none.
C19_Witness ==
    /\ Len(vectors) = 1
    /\ Len(ingested) = 1
    /\ Psi = ONE

\* ------------------------------------------------------------------------
\* Properties of the control loop with its single worker (SpecLoop)
\* ------------------------------------------------------------------------

\* The entries of a snapshot that the trigger decision reads.
Reading(t, omega) == [timestamp |-> t, omega |-> omega]

\* The condition for the trigger, on the snapshot history of the cycle: two
\* snapshots, a positive rate (the quotient gain/dt of a positive dt is
\* positive exactly when the gain is; the rate counts as 0 otherwise), and
\* a gain of at least min_omega_gain.
TriggerDue ==
    /\ Len(history) >= 2
    /\ history[Len(history)].timestamp - history[Len(history) - 1].timestamp > 0
    /\ history[Len(history)].omega - history[Len(history) - 1].omega > 0
    /\ history[Len(history)].omega - history[Len(history) - 1].omega >= min_omega_gain

\* C1: a cycle invokes register_metric_on_chain, with the omega of its
\* snapshot, exactly when the history holds two snapshots, the rate is
\* positive and the gain reaches min_omega_gain; no other step invokes it.
\* With min_omega_gain = 0.0005 and snapshots one second apart,
\* 0.5000 -> 0.5006 fires, 0.5000 -> 0.5003 does not, and a single snapshot
\* never fires.
C1_TriggerExactlyWhenDue ==
    /\ [](/\ _trigger_if_needed(<<Reading(0, Fx(5000, 10000)),
                                   Reading(1, Fx(5006, 10000))>>, Fx(5, 10000))
          /\ ~_trigger_if_needed(<<Reading(0, Fx(5000, 10000)),
                                    Reading(1, Fx(5003, 10000))>>, Fx(5, 10000))
          /\ ~_trigger_if_needed(<<Reading(0, Fx(5006, 10000))>>, Fx(5, 10000)))
    /\ [][/\ \A t \in Threads :
                 (wpc[t] = "decide" /\ wpc'[t] # "decide") =>
                     IF TriggerDue
                     THEN registered' = Append(registered, history[Len(history)].omega)
                     ELSE registered' = registered
          /\ registered' # registered =>
                 \E t \in Threads : wpc[t] = "decide" /\ wpc'[t] # "decide"]_vars

\* Three cycles have decided and exactly one of them invoked the trigger:
\* the first could not, one of the other two did and one did not.
C1_Witness ==
    /\ Len(recorded) = 3
    /\ Len(registered) = 1
    /\ \A t \in Threads : wpc[t] \notin {"evict", "decide"}

\* C9: between the cycles' recording steps the snapshot history holds the
\* most recent snapshots appended, at most the capacity of them, in the
\* order in which they were appended: every recording appends one snapshot
\* and drops the oldest ones beyond the capacity.
C9_SnapshotsBounded ==
    (\A t \in Threads : wpc[t] # "evict") =>
        /\ Len(history) <= MaxSnapshots
        /\ history = LastN(recorded, MaxSnapshots)

\* A recording went beyond the capacity and dropped the oldest snapshot,
\* which differs from the one now at the head.
C9_Witness ==
    /\ Len(recorded) > MaxSnapshots
    /\ \A t \in Threads : wpc[t] # "evict"
    /\ Len(history) = MaxSnapshots
    /\ recorded[1] # history[1]

\* ------------------------------------------------------------------------
\* Properties of start() and stop() under concurrent callers (Spec)
\* ------------------------------------------------------------------------

\* A worker is active from Thread.start() until _loop has ended.
Active(t) == Started(t) /\ ~Finished(t)

\* C2: at most one worker of the oracle is active at any time, whatever
\* start() and stop() calls the callers make and however they interleave.
C2_SingleWorker == Cardinality({t \in Threads : Active(t)}) <= 1

\* C16: a cycle of _loop goes evolve(), one snapshot append, the trigger
\* decision, the interval sleep, in this order; it leaves this order only
\* by an error into the handler, the snapshot carries the intervention count
\* evolve() left, and self.running is read at the loop test only: a worker
\* ends from the loop test and from nowhere else in a cycle, whatever
\* stop() did in between.
C16_CycleOrder ==
    [][/\ \A t \in Threads :
              wpc'[t] # wpc[t] =>
                  CASE wpc[t] = "while" ->
                           wpc'[t] = IF running THEN "evolve" ELSE "done"
                    [] wpc[t] = "evolve" ->
                           wpc'[t] = IF Raises THEN "except" ELSE "record"
                    [] wpc[t] = "record" ->
                           IF Raises
                           THEN wpc'[t] = "except" /\ recorded' = recorded
                           ELSE /\ wpc'[t] = "evict"
                                /\ Len(recorded') = Len(recorded) + 1
                                /\ SubSeq(recorded', 1, Len(recorded)) = recorded
                                /\ recorded'[Len(recorded')].intervention_count
                                       = intervention_count
                                /\ history' = Append(history,
                                                     recorded'[Len(recorded')])
                    [] wpc[t] = "evict" -> wpc'[t] = "decide"
                    [] wpc[t] = "decide" ->
                           \/ wpc'[t] = "sleep"
                           \/ /\ wpc'[t] = "except"
                              /\ _trigger_if_needed(history, min_omega_gain)
                    [] wpc[t] = "sleep" ->
                           wpc'[t] = IF SleepRaises(interval_seconds)
                                     THEN "except" ELSE "while"
                    [] wpc[t] = "except" ->
                           wpc'[t] = IF SleepRaises(interval_seconds)
                                     THEN "crashed" ELSE "while"
                    [] OTHER -> ~Started(t) /\ wpc'[t] \in {"created", "while"}
       /\ recorded' # recorded => \E t \in Threads : wpc[t] = "record"
       /\ intervention_count' # intervention_count =>
              \E t \in Threads : wpc[t] = "evolve"]_vars

\* stop() has cleared the flag while a worker was inside a cycle, and the
\* worker has gone on through the snapshot and the trigger decision to the
\* interval sleep.
C16_Witness ==
    \E t \in Threads :
        /\ wpc[t] = "sleep"
        /\ ~running
        /\ Len(recorded) > 0
        /\ ~SleepRaises(interval_seconds)

\* C20: the snapshot of a cycle is in the history before the trigger is
\* attempted and stays there when register_metric_on_chain raises; the
\* handler does not attempt the trigger again; every trigger decision
\* compares the snapshot of its own cycle with the snapshot of the cycle
\* before, so no snapshot is submitted in two cycles.
C20_SnapshotCommitted ==
    /\ [](\A t \in Threads :
             wpc[t] = "decide" =>
                 /\ Len(history) >= 1
                 /\ history[Len(history)] = recorded[Len(recorded)]
                 /\ Len(recorded) >= 2 =>
                        /\ Len(history) >= 2
                        /\ history[Len(history) - 1]
                               = recorded[Len(recorded) - 1])
    /\ [](Len(registered) <= Max(0, Len(recorded) - 1))
    /\ [][/\ \A t \in Threads :
                 /\ (wpc[t] = "decide" /\ wpc'[t] = "except") =>
                        /\ history' = history
                        /\ recorded' = recorded
                        /\ registered' = Append(registered,
                                                recorded[Len(recorded)].omega)
                 /\ (wpc[t] = "except" /\ wpc'[t] # "except") =>
                        UNCHANGED <<history, recorded, registered>>
          /\ registered' # registered =>
                 \E t \in Threads : wpc[t] = "decide"]_vars

\* register_metric_on_chain has just raised: the worker is in the handler,
\* the value it tried to submit is the omega of the newest snapshot, and
\* that snapshot is in the history.
C20_Witness ==
    \E t \in Threads :
        /\ wpc[t] = "except"
        /\ ~Raises
        /\ ~SleepRaises(interval_seconds)
        /\ Len(registered) > 0
        /\ Len(history) >= 2
        /\ history[Len(history)] = recorded[Len(recorded)]
        /\ registered[Len(registered)] = history[Len(history)].omega

\* C3: once a stop() has returned, and until a later start() sets the
\* running flag, no snapshot is appended and no trigger is invoked.
C3_QuietAfterStop ==
    [][stop_returned => recorded' = recorded /\ registered' = registered]_vars

\* C4: a worker leaves _loop only when the running flag is cleared.
C4_EndsOnlyWhenStopped ==
    [][\A t \in Threads : (Active(t) /\ Finished(t)') => ~running]_vars

\* The caller is inside stop(), past self.running = False.
InStop(c) == cpc[c] \in {"stop_test", "stop_join", "stop_wait"}

\* C21: every stop() call returns, whatever start() and status() calls
\* run next to it, when the workers are scheduled and every step of a cycle
\* returns.
C21_StopTerminates == \A c \in Callers : InStop(c) ~> cpc[c] = "idle"

\* ------------------------------------------------------------------------
\* Properties of a kernel shared by concurrent callers (SpecShared)
\* ------------------------------------------------------------------------

\* No caller is inside ingest().
Quiescent == \A c \in Callers : calls[c].pc = "idle"

\* C10: concurrent ingest() calls take effect one after the other: when
\* they have all returned, the histories have the same length and hold,
\* vector next to its own loss, the most recent samples ingested, up to
\* the capacity.
C10_IngestSerialized ==
    Quiescent =>
        /\ Len(vectors) = Len(losses)
        /\ Len(vectors) = Min(Len(ingested), MaxSamples)
        /\ \A i \in 1..Min(Len(vectors), Len(losses)) :
               Sample(i) = LastN(ingested, MaxSamples)[i]

\* ------------------------------------------------------------------------
\* Properties of status() beside a running worker (SpecStatus)
\* ------------------------------------------------------------------------

\* C11: status() never raises, whatever the worker does between its reads;
\* none of its steps changes the running flag, the snapshot history or the
\* kernel; and what it returns is a running flag, a number of snapshots
\* and a rate.
C11_StatusPureRead ==
    /\ [](/\ reader.pc # "raised"
          /\ DOMAIN reader.result = {"running", "samples", "d_omega_dt"}
          /\ reader.result.running \in BOOLEAN
          /\ reader.result.samples \in 0..(MaxSnapshots + 1)
          /\ reader.result.d_omega_dt.den > 0)
    /\ [][reader' # reader =>
              /\ running' = running
              /\ history' = history
              /\ recorded' = recorded
              /\ kernel_vars' = kernel_vars]_vars

\* A status() call has returned a rate other than 0 and the sample count it
\* read between the worker's append and its eviction.
C11_Witness ==
    /\ reader.pc = "idle"
    /\ reader.result.running
    /\ reader.result.samples = MaxSnapshots + 1
    /\ reader.result.d_omega_dt.num # 0

\* ------------------------------------------------------------------------
\* Properties of the oracle's configuration (Spec)
\* ------------------------------------------------------------------------

\* C12: an oracle with an invalid configuration never runs: whenever the
\* running flag is set or a worker is active, interval_seconds is positive
\* and min_omega_gain is not negative.
C12_RunsOnlyIfValid ==
    (running \/ \E t \in Threads : Active(t)) =>
        /\ interval_seconds > 0
        /\ min_omega_gain >= 0

====
